---- MODULE Spec2Model ----
(***************************************************************************)
(* A model of aboleth/layer.py: the layer build functions (eye,            *)
(* activation, fork, lmap, cat, add, dense_var, dense_map, randomFourier), *)
(* the kernels and the private distributions (_Normal, _NormPrior,         *)
(* _NormPosterior, _MixPosterior).                                         *)
(*                                                                         *)
(* Tensors are graph nodes.  In the combinator part a tensor is a record   *)
(* [n, cols]: its batch size and the sequence of its feature columns, each *)
(* column carrying where it came from.  Real numbers are fixed-point       *)
(* integers in units of 1/SCALE.                                           *)
(***************************************************************************)
EXTENDS Integers, Sequences, FiniteSets, TLC

VARIABLES
    op,      \* name of the last build function called ("" before any call)
    inp,     \* its argument
    out,     \* what it returned: [ok, Phi, KL, err]
    layers,  \* the sub-layers captured by the lmap instance
    calls,   \* sub-layer invocations made by the last build call, in order
    cfg,     \* the arguments captured by the dense_var / randomFourier instance
    graph,   \* every variable and distribution created so far, in order
    builds,  \* one entry per build call made on the instance, in order
    kernel   \* the kernel object of the randomFourier instance

vars == <<op, inp, out, layers, calls, cfg, graph, builds, kernel>>

combVars == <<layers, calls>>
layerVars == <<cfg, graph, builds, kernel>>

\* ---------------------------------------------------------------- bounds
MaxLayers == 2
MaxSamples == 2
MaxDim == 2
MaxKL == 2
MaxReplicas == 2
MaxBuilds == 2
MaxK == 2
MaxDraw == 2
MaxVarN == 3

\* ---------------------------------------------------------------- helpers
RECURSIVE SumSeq(_)
SumSeq(s) == IF s = <<>> THEN 0 ELSE Head(s) + SumSeq(Tail(s))

RECURSIVE Flatten(_)
Flatten(ss) == IF ss = <<>> THEN <<>> ELSE Head(ss) \o Flatten(Tail(ss))

\* What a build function hands back: (Phi, KL), or the error it raised.
\* calls lists the sub-layer invocations it made: <<layer, input>>, in order.
Range(s) == {s[i] : i \in 1..Len(s)}

Ret(Phi, KL) ==
    [ok |-> TRUE, Phi |-> Phi, KL |-> KL, err |-> "", calls |-> <<>>]

Raise(e) == [ok |-> FALSE, Phi |-> <<>>, KL |-> 0, err |-> e, calls |-> <<>>]

\* ---------------------------------------------------------------- tensors
\* Column j of sample s of branch b, as fed to the network.
Col(b, s, j) == [src |-> <<b, s, j>>, by |-> <<>>, parts |-> <<>>]

InTensor(b, s, d) == [n |-> 1, cols |-> [j \in 1..d |-> Col(b, s, j)]]

\* One branch: a list of S per-sample tensors of feature dimension d.
Branch(b, S, d) == [s \in 1..S |-> InTensor(b, s, d)]

\* A list of M branches of S samples; branch b has feature dimension fd[b].
BranchList(M, S, fd) == [b \in 1..M |-> Branch(b, S, fd[b])]

\* h(x): an elementwise function, recorded on every column it touched.
Apply(h, x) == [x EXCEPT !.cols = [j \in 1..Len(x.cols) |->
                                     [x.cols[j] EXCEPT !.by = Append(@, h)]]]

\* tf.concat(X, axis=1): the columns of the tensors of X, in order.
tf_concat(X) ==
    IF \E i \in 1..Len(X) : X[i].n # X[1].n
    THEN Raise("ValueError")
    ELSE Ret([n |-> X[1].n,
              cols |-> Flatten([i \in 1..Len(X) |-> X[i].cols])], 0)

\* tf.add_n(X): the elementwise sum of the tensors of X.
tf_add_n(X) ==
    IF \E i \in 1..Len(X) : X[i].n # X[1].n \/ Len(X[i].cols) # Len(X[1].cols)
    THEN Raise("ValueError")
    ELSE Ret([n |-> X[1].n,
              cols |-> [j \in 1..Len(X[1].cols) |->
                         [src |-> <<0, 0, j>>, by |-> <<>>,
                          parts |-> [i \in 1..Len(X) |-> X[i].cols[j]]]]], 0)

\* ---------------------------------------------------------------- layers
build_eye(X) == Ret(X, 0)

build_activation(h, X) == Ret([i \in 1..Len(X) |-> Apply(h, X[i])], 0)

build_fork(replicas, X) == Ret([r \in 1..replicas |-> X], 0)

\* A layer handed to lmap: build function number i, which marks its outputs
\* with 100 + i and returns the KL kl.
SubLayer(i, kl, X) == Ret([s \in 1..Len(X) |-> Apply(100 + i, X[s])], kl)

\* map(lambda p, X: p(X), layers, Xs): each layer called on its input, in
\* order; every entry keeps the call made and what it returned.
MapLayers(ls, Xs) ==
    [i \in 1..Len(ls) |-> [call |-> <<i, Xs[i]>>,
                           r |-> SubLayer(i, ls[i], Xs[i])]]

build_lmap_lastKL(ls, Xs) ==
    IF Len(Xs) # Len(ls)
    THEN Raise("ValueError: Number of layers and inputs not the same!")
    ELSE LET rs == MapLayers(ls, Xs)
         IN  [Ret([i \in 1..Len(rs) |-> rs[i].r.Phi], rs[Len(rs)].r.KL)
                EXCEPT !.calls = [i \in 1..Len(rs) |-> rs[i].call]]

build_lmap_truncate(ls, Xs) ==
    LET m  == IF Len(Xs) < Len(ls) THEN Len(Xs) ELSE Len(ls)
        rs == MapLayers(SubSeq(ls, 1, m), Xs)
    IN  [Ret([i \in 1..m |-> rs[i].r.Phi],
             SumSeq([i \in 1..m |-> rs[i].r.KL]))
           EXCEPT !.calls = [i \in 1..m |-> rs[i].call]]

build_lmap(ls, Xs) ==
    IF Len(Xs) # Len(ls)
    THEN Raise("ValueError: Number of layers and inputs not the same!")
    ELSE LET rs == MapLayers(ls, Xs)
         IN  [Ret([i \in 1..Len(rs) |-> rs[i].r.Phi],
                  SumSeq([i \in 1..Len(rs) |-> rs[i].r.KL]))
                EXCEPT !.calls = [i \in 1..Len(rs) |-> rs[i].call]]

\* [f(X) for X in Xs], failing as soon as one f(X) fails.
MapJoin(rs) ==
    IF \E i \in 1..Len(rs) : ~rs[i].ok
    THEN Raise("ValueError")
    ELSE Ret([i \in 1..Len(rs) |-> rs[i].Phi], 0)

build_cat(Xs) == MapJoin([i \in 1..Len(Xs) |-> tf_concat(Xs[i])])

build_add(Xs) == MapJoin([i \in 1..Len(Xs) |-> tf_add_n(Xs[i])])

\* ---------------------------------------------------------------- numbers
\* Reals are fixed-point integers: the real r is the integer r * SCALE.
SCALE == 10000

\* log(2) and pi, in units of 1/SCALE.
LN2 == 6931

PI == 31416

Mul(a, b) == (a * b) \div SCALE

Div(a, b) == (a * SCALE) \div b

RECURSIVE ExpSeries(_, _, _)
ExpSeries(x, term, k) ==
    IF term = 0 THEN 0
    ELSE term + ExpSeries(x, Mul(term, x) \div k, k + 1)

\* tf.exp(x), for x <= 0.
RECURSIVE Exp(_)
Exp(x) ==
    IF x < -(SCALE \div 2)
    THEN LET h == Exp(x \div 2) IN Mul(h, h)
    ELSE ExpSeries(x, SCALE, 1)

RECURSIVE AtanhSeries(_, _, _)
AtanhSeries(t2, pw, k) ==
    IF pw = 0 THEN 0
    ELSE pw \div k + AtanhSeries(t2, Mul(pw, t2), k + 2)

\* tf.log(x), for x > 0.
RECURSIVE Ln(_)
Ln(x) ==
    IF x >= 2 * SCALE THEN LN2 + Ln(x \div 2)
    ELSE IF x < SCALE THEN Ln(2 * x) - LN2
    ELSE LET t == Div(x - SCALE, x + SCALE)
         IN  2 * AtanhSeries(Mul(t, t), t, 1)

\* aboleth.util.pos: an unconstrained real to a strictly positive one
\* (softplus).
pos(x) == IF x > 0 THEN x + Ln(SCALE + Exp(-x)) ELSE Ln(SCALE + Exp(x))

\* ---------------------------------------------------------------- graph nodes
\* A variance: pos(tf.Variable(of)) when viaPos, the plain value `of` otherwise.
PosVariable(v) == [viaPos |-> TRUE, of |-> v]

Plain(v) == [viaPos |-> FALSE, of |-> v]

\* The values an unconstrained variable may hold during training.
ParamVals == {-2 * SCALE, 0, 2 * SCALE}

PosOf == [v \in ParamVals |-> pos(v)]

\* The value of a variance node once its variable holds v.
VarValue(var, v) == IF var.viaPos THEN PosOf[v] ELSE var.of

_NormPrior(id, dim, var, learn_var) ==
    [id |-> id, cls |-> "_NormPrior", dim |-> dim, mu |-> "zeros",
     var |-> IF learn_var THEN PosVariable(var) ELSE Plain(var)]

_NormPosterior_raw(id, dim, prior_var) ==
    [id |-> id, cls |-> "_NormPosterior", dim |-> dim, mu |-> "Variable",
     var |-> Plain(prior_var)]

_NormPosterior(id, dim, prior_var) ==
    [id |-> id, cls |-> "_NormPosterior", dim |-> dim, mu |-> "Variable",
     var |-> PosVariable(prior_var)]

\* _MixPosterior.__init__: K posteriors, created in order.
_MixPosterior(id, dim, prior_var, K) ==
    [k \in 1..K |-> _NormPosterior(id + k - 1, dim, prior_var)]

\* tf.Variable(tf.random_normal(dim)): a point-estimate parameter.
Variable(id, dim) ==
    [id |-> id, cls |-> "Variable", dim |-> dim, mu |-> "Variable",
     var |-> Plain(0)]

Ids(nodes) == [i \in 1..Len(nodes) |-> nodes[i].id]

\* What a column records of an operand it was computed from.
Param(name, ids) == [p |-> name, ids |-> ids]

\* ---------------------------------------------------------------- distributions
\* A distribution's values: [mu, var], two vectors of the same length.
Zeros(d) == [i \in 1..d |-> 0]

RECURSIVE SqrtIter(_, _)
SqrtIter(n, r) ==
    LET r2 == (r + n \div r) \div 2
    IN  IF r2 >= r THEN r ELSE SqrtIter(n, r2)

\* tf.sqrt(v), for v >= 0.
Sqrt(v) == IF v = 0 THEN 0 ELSE SqrtIter(v * SCALE, v * SCALE)

\* _Normal.sample: mu + e * sigma, e being the standard-normal draw.
_Normal_sample(q, e) ==
    [i \in 1..Len(q.mu) |-> q.mu[i] + Mul(e[i], Sqrt(q.var[i]))]

_Normal_KL_swapped(q, p) ==
    [i \in 1..Len(q.mu) |->
        (Ln(q.var[i]) - Ln(p.var[i]) + Div(q.var[i], p.var[i]) - SCALE
         + Div(Mul(q.mu[i] - p.mu[i], q.mu[i] - p.mu[i]), p.var[i])) \div 2]

\* _Normal.KL: elementwise.
_Normal_KL(q, p) ==
    [i \in 1..Len(q.mu) |->
        (Ln(p.var[i]) - Ln(q.var[i]) + Div(q.var[i], p.var[i]) - SCALE
         + Div(Mul(q.mu[i] - p.mu[i], q.mu[i] - p.mu[i]), p.var[i])) \div 2]

_log_norm(x, mu, var) ==
    (-SumSeq([i \in 1..Len(x) |->
                Ln(Mul(2 * var[i], PI))
                + Div(Mul(x[i] - mu[i], x[i] - mu[i]), var[i])])) \div 2

Max(s) == CHOOSE m \in Range(s) : \A x \in Range(s) : x <= m

\* tf.reduce_logsumexp(lq)
reduce_logsumexp(lq) ==
    LET m == Max(lq)
    IN  m + Ln(SumSeq([j \in 1..Len(lq) |-> Exp(lq[j] - m)]))

VecAdd(a, b) == [i \in 1..Len(a) |-> a[i] + b[i]]

\* _MixPosterior.KL with `offset` subtracted from every overlap log-density.
MixKLWithOffset(comps, p, offset) ==
    LET K == Len(comps)
        term(k) ==
            LET qk == comps[k]
                lp == _log_norm(qk.mu, p.mu, p.var)
                tr == SumSeq([i \in 1..Len(qk.var) |->
                                Div(qk.var[i], p.var[i])])
                lq == [j \in 1..K |->
                         _log_norm(qk.mu, comps[j].mu,
                                   VecAdd(qk.var, comps[j].var)) - offset]
                h  == reduce_logsumexp(lq)
            IN  (tr \div 2 - lp + h) \div K
    IN  SumSeq([k \in 1..K |-> term(k)])

\* _MixPosterior.KL: the offset is self.K.
_MixPosterior_KL(comps, p) == MixKLWithOffset(comps, p, Len(comps) * SCALE)

\* tf.multinomial(logits, 1)[0][0]: the indices it may return, from 0.
multinomial(logits) == {i - 1 : i \in 1..Len(logits)}

\* The logits _MixPosterior.sample hands to tf.multinomial.
MixLogits(K) == [i \in 1..K |-> Ln(Div(SCALE, K * SCALE))]

_MixPosterior_sample_from1(comps, k, e) ==
    LET z     == Zeros(Len(comps[1].mu))
        terms == [i \in 1..Len(comps) |->
                    IF k = i
                    THEN [taken |-> TRUE, val |-> _Normal_sample(comps[i], e)]
                    ELSE [taken |-> FALSE, val |-> z]]
    IN  [k |-> k, terms |-> terms,
         sample |-> [d \in 1..Len(z) |->
                       z[d] + SumSeq([i \in 1..Len(terms) |-> terms[i].val[d]])]]

\* _MixPosterior.sample with component index k drawn; enumerate counts the
\* components from 0.
_MixPosterior_sample(comps, k, e) ==
    LET z     == Zeros(Len(comps[1].mu))
        terms == [i \in 1..Len(comps) |->
                    IF k = i - 1
                    THEN [taken |-> TRUE, val |-> _Normal_sample(comps[i], e)]
                    ELSE [taken |-> FALSE, val |-> z]]
    IN  [k |-> k, terms |-> terms,
         sample |-> [d \in 1..Len(z) |->
                       z[d] + SumSeq([i \in 1..Len(terms) |-> terms[i].val[d]])]]

\* ---------------------------------------------------------------- dense layers
_input_dim(X) == Len(X[1].cols)

\* tf.matmul(x, w): shape inference rejects operands whose inner dimensions
\* differ while the graph is built.
matmul(x, w) ==
    IF Len(x.cols) # w.dim[1]
    THEN Raise("ValueError: Dimensions must be equal")
    ELSE Ret([n |-> x.n,
              cols |-> [j \in 1..w.dim[2] |->
                          [src |-> <<0, 0, j>>, by |-> <<w.by>>,
                           parts |-> x.cols]]], 0)

\* matmul(x, w) + b
Affine(x, w, b) ==
    LET r == matmul(x, w)
    IN  IF r.ok THEN Ret(Apply(b.by, r.Phi), 0) ELSE r

AffineAll_first(X, w, b) ==
    MapJoin([i \in 1..Len(X) |-> Affine(X[1], w, b)])

\* [matmul(x, w) + b for x in X]: the first failure ends the build.
AffineAll(X, w, b) == MapJoin([i \in 1..Len(X) |-> Affine(X[i], w, b)])

\* build_dense of dense_var(output_dim, reg, learn_prior, mixtures), called
\* when the graph holds `base` nodes: the nodes it creates and what it returns.
build_dense_once(c, base, X) ==
    LET input_dim == _input_dim(X)
        Wdim == <<input_dim, c.output_dim>>
        bdim == <<c.output_dim>>
        K    == IF c.mixtures > 1 THEN c.mixtures ELSE 1
        pW   == _NormPrior(1, Wdim, c.reg, c.learn_prior)
        pb   == _NormPrior(2, bdim, c.reg, c.learn_prior)
        qW   == IF c.mixtures > 1
                THEN _MixPosterior(3, Wdim, c.reg, K)
                ELSE <<_NormPosterior(3, Wdim, c.reg)>>
        qb   == IF c.mixtures > 1
                THEN _MixPosterior(3 + K, bdim, c.reg, K)
                ELSE <<_NormPosterior(3 + K, bdim, c.reg)>>
        r    == AffineAll(X, [by |-> Param("qW", Ids(qW)), dim |-> Wdim],
                             [by |-> Param("qb", Ids(qb)), dim |-> bdim])
        KL   == [qW |-> Ids(qW), pW |-> pW.id, qb |-> Ids(qb), pb |-> pb.id,
                 mixture |-> c.mixtures > 1]
    IN  [nodes |-> IF base = 0 THEN <<pW, pb>> \o qW \o qb ELSE <<>>,
         out   |-> IF r.ok THEN Ret(r.Phi, KL) ELSE r,
         W     |-> Ids(qW), b |-> Ids(qb), Wdim |-> Wdim]

build_dense(c, base, X) ==
    LET input_dim == _input_dim(X)
        Wdim == <<input_dim, c.output_dim>>
        bdim == <<c.output_dim>>
        K    == IF c.mixtures > 1 THEN c.mixtures ELSE 1
        pW   == _NormPrior(base + 1, Wdim, c.reg, c.learn_prior)
        pb   == _NormPrior(base + 2, bdim, c.reg, c.learn_prior)
        qW   == IF c.mixtures > 1
                THEN _MixPosterior(base + 3, Wdim, c.reg, K)
                ELSE <<_NormPosterior(base + 3, Wdim, c.reg)>>
        qb   == IF c.mixtures > 1
                THEN _MixPosterior(base + 3 + K, bdim, c.reg, K)
                ELSE <<_NormPosterior(base + 3 + K, bdim, c.reg)>>
        r    == AffineAll(X, [by |-> Param("qW", Ids(qW)), dim |-> Wdim],
                             [by |-> Param("qb", Ids(qb)), dim |-> bdim])
        KL   == [qW |-> Ids(qW), pW |-> pW.id, qb |-> Ids(qb), pb |-> pb.id,
                 mixture |-> c.mixtures > 1]
    IN  [nodes |-> <<pW, pb>> \o qW \o qb,
         out   |-> IF r.ok THEN Ret(r.Phi, KL) ELSE r,
         W     |-> Ids(qW), b |-> Ids(qb), Wdim |-> Wdim]

\* build_dense_map of dense_map(output_dim, l1_reg, l2_reg).
build_dense_map(c, base, X) ==
    LET input_dim == _input_dim(X)
        Wdim == <<input_dim, c.output_dim>>
        bdim == <<c.output_dim>>
        W    == Variable(base + 1, Wdim)
        b    == Variable(base + 2, bdim)
        r    == AffineAll(X, [by |-> Param("W", <<W.id>>), dim |-> Wdim],
                             [by |-> Param("b", <<b.id>>), dim |-> bdim])
        pen  == [l1 |-> c.l1_reg > 0, l2 |-> c.l2_reg > 0,
                 W |-> W.id, b |-> b.id]
    IN  [nodes |-> <<W, b>>,
         out   |-> IF r.ok THEN Ret(r.Phi, pen) ELSE r,
         W     |-> <<W.id>>, b |-> <<b.id>>, Wdim |-> Wdim]

\* ---------------------------------------------------------------- kernels
\* RBF.weights / Matern.weights: a fresh random matrix on every invocation;
\* `draw` stands for what numpy's generator returned.
RBF_weights(k, input_dim, n_features, draw) ==
    [dim |-> <<input_dim, n_features>>, draw |-> draw, dist |-> "randn",
     lenscale |-> k.lenscale, call |-> k.ncalls + 1]

Matern_weights(k, input_dim, n_features, draw) ==
    [dim |-> <<input_dim, n_features>>, draw |-> draw, dist |-> "student_t",
     lenscale |-> k.lenscale, call |-> k.ncalls + 1]

weights(k, input_dim, n_features, draw) ==
    IF k.cls = "Matern" THEN Matern_weights(k, input_dim, n_features, draw)
    ELSE RBF_weights(k, input_dim, n_features, draw)

\* phi(x) of build_randomRBF: [cos(xP), sin(xP)] / sqrt(n_features).
phi(x, P) ==
    LET XP == matmul(x, [by |-> Param("P", <<P.call, P.draw>>), dim |-> P.dim])
    IN  IF ~XP.ok THEN XP
        ELSE tf_concat(<<Apply(Param("cos", <<>>), XP.Phi),
                         Apply(Param("sin", <<>>), XP.Phi)>>)

\* build_randomRBF with P drawn anew for every input tensor.
build_randomRBF_per_tensor(c, k, X, draw) ==
    LET input_dim == _input_dim(X)
        P(i) == weights([k EXCEPT !.ncalls = @ + i - 1], input_dim,
                        c.n_features, draw)
    IN  [out    |-> MapJoin([i \in 1..Len(X) |-> phi(X[i], P(i))]),
         kernel |-> [k EXCEPT !.ncalls = @ + Len(X)],
         P      |-> P(1)]

\* build_randomRBF of randomFourier(n_features, kernel): what it returns, the
\* kernel after the call and the P it drew.
build_randomRBF(c, k, X, draw) ==
    LET input_dim == _input_dim(X)
        P == weights(k, input_dim, c.n_features, draw)
    IN  [out    |-> MapJoin([i \in 1..Len(X) |-> phi(X[i], P)]),
         kernel |-> [k EXCEPT !.ncalls = @ + 1],
         P      |-> P]

\* r >> f: the next build function applied to what the pipeline returned so
\* far, the KLs added; an error ends the build.
\* r2 is what f returned on r.Phi.
Then(r, r2) ==
    IF ~r.ok THEN r
    ELSE [r2 EXCEPT !.KL = IF r2.ok THEN r.KL + r2.KL ELSE 0,
                    !.calls = r.calls \o r2.calls]

\* fork(replicas) >> lmap(*ls) >> cat()  or  ... >> add()
Pipeline(replicas, ls, join, X) ==
    LET forked == build_fork(replicas, X)
        mapped == Then(forked, build_lmap(ls, forked.Phi))
    IN  IF join = "cat" THEN Then(mapped, build_cat(mapped.Phi))
        ELSE Then(mapped, build_add(mapped.Phi))

\* ---------------------------------------------------------------- inputs
Lists == {BranchList(1, S, [b \in 1..1 |-> d]) [1] :
            S \in 1..MaxSamples, d \in 1..MaxDim}

BranchLists(Ms) ==
    UNION {{BranchList(M, S, fd) : fd \in [1..M -> 1..MaxDim]} :
             M \in Ms, S \in 1..MaxSamples}

LayerLists == UNION {[1..L -> 0..MaxKL] : L \in 1..MaxLayers}

NoCfg == [layer |-> ""]

NoKernel == [cls |-> "", lenscale |-> 0, ncalls |-> 0]

\* ---------------------------------------------------------------- actions
InitComb ==
    /\ op = ""
    /\ inp = <<>>
    /\ out = Ret(<<>>, 0)
    /\ layers \in LayerLists
    /\ calls = <<>>
    /\ cfg = NoCfg
    /\ graph = <<>>
    /\ builds = <<>>
    /\ kernel = NoKernel

Eye ==
    /\ op = ""
    /\ \E X \in Lists :
        /\ op' = "eye" /\ inp' = X /\ out' = build_eye(X)
        /\ calls' = <<>> /\ UNCHANGED <<layers, layerVars>>

Activation ==
    /\ op = ""
    /\ \E X \in Lists, h \in {1, 2} :
        /\ op' = "activation" /\ inp' = X /\ out' = build_activation(h, X)
        /\ calls' = <<>> /\ UNCHANGED <<layers, layerVars>>

Fork ==
    /\ op = ""
    /\ \E X \in Lists, r \in 1..MaxReplicas :
        /\ op' = "fork" /\ inp' = X /\ out' = build_fork(r, X)
        /\ calls' = <<>> /\ UNCHANGED <<layers, layerVars>>

Lmap ==
    /\ op = ""
    /\ \E Xs \in BranchLists(0..MaxLayers + 1) :
        /\ op' = "lmap" /\ inp' = Xs /\ out' = build_lmap(layers, Xs)
        /\ calls' = out'.calls /\ UNCHANGED <<layers, layerVars>>

Cat ==
    /\ op = ""
    /\ \E Xs \in BranchLists(1..MaxLayers) :
        /\ op' = "cat" /\ inp' = Xs /\ out' = build_cat(Xs)
        /\ calls' = <<>> /\ UNCHANGED <<layers, layerVars>>

Add ==
    /\ op = ""
    /\ \E Xs \in BranchLists(1..MaxLayers) :
        /\ op' = "add" /\ inp' = Xs /\ out' = build_add(Xs)
        /\ calls' = <<>> /\ UNCHANGED <<layers, layerVars>>

Pipe ==
    /\ op = ""
    /\ \E X \in Lists, r \in 1..MaxReplicas, join \in {"cat", "add"} :
        /\ op' = "pipe" /\ inp' = <<r, join, X>>
        /\ out' = Pipeline(r, layers, join, X)
        /\ calls' = out'.calls
        /\ UNCHANGED <<layers, layerVars>>

NextComb == Eye \/ Activation \/ Fork \/ Lmap \/ Cat \/ Add \/ Pipe

SpecComb == InitComb /\ [][NextComb]_vars

\* ---------------------------------------------------------------- dense spec
\* Lists of 2D tensors, each with its own feature dimension.
TensorLists ==
    UNION {{[s \in 1..S |-> InTensor(1, s, fd[s])] : fd \in [1..S -> 1..MaxDim]} :
             S \in 1..MaxSamples}

RegVals == {0, SCALE}

\* The layer instance: dense_var(output_dim, reg, learn_prior, mixtures) or
\* dense_map(output_dim, l1_reg, l2_reg).
DenseVarCfgs ==
    [layer : {"dense_var"}, output_dim : {1, 2}, reg : RegVals,
     learn_prior : BOOLEAN, mixtures : 1..MaxK]

DenseMapCfgs ==
    [layer : {"dense_map"}, output_dim : {1, 2}, l1_reg : RegVals,
     l2_reg : RegVals]

InitDense ==
    /\ op = ""
    /\ inp = <<>>
    /\ out = Ret(<<>>, 0)
    /\ layers = <<>>
    /\ calls = <<>>
    /\ cfg \in DenseVarCfgs \cup DenseMapCfgs
    /\ graph = <<>>
    /\ builds = <<>>
    /\ kernel = NoKernel

\* One build call on the dense_var instance.
DenseVar ==
    /\ cfg.layer = "dense_var"
    /\ Len(builds) < MaxBuilds
    /\ \E X \in TensorLists :
        LET r == build_dense(cfg, Len(graph), X)
        IN  /\ op' = "dense_var" /\ inp' = X /\ out' = r.out
            /\ graph' = graph \o r.nodes
            /\ builds' = Append(builds, [layer |-> "dense_var", ok |-> r.out.ok,
                                         nodes |-> Ids(r.nodes), W |-> r.W,
                                         b |-> r.b, Wdim |-> r.Wdim])
            /\ UNCHANGED <<combVars, cfg, kernel>>

\* One build call on the dense_map instance.
DenseMap ==
    /\ cfg.layer = "dense_map"
    /\ Len(builds) < MaxBuilds
    /\ \E X \in TensorLists :
        LET r == build_dense_map(cfg, Len(graph), X)
        IN  /\ op' = "dense_map" /\ inp' = X /\ out' = r.out
            /\ graph' = graph \o r.nodes
            /\ builds' = Append(builds, [layer |-> "dense_map", ok |-> r.out.ok,
                                         nodes |-> Ids(r.nodes), W |-> r.W,
                                         b |-> r.b, Wdim |-> r.Wdim])
            /\ UNCHANGED <<combVars, cfg, kernel>>

NextDense == DenseVar \/ DenseMap

SpecDense == InitDense /\ [][NextDense]_vars

\* ---------------------------------------------------------------- randomFourier spec
InitRF ==
    /\ op = ""
    /\ inp = <<>>
    /\ out = Ret(<<>>, 0)
    /\ layers = <<>>
    /\ calls = <<>>
    /\ cfg \in [layer : {"randomFourier"}, n_features : {2}]
    /\ graph = <<>>
    /\ builds = <<>>
    /\ kernel \in [cls : {"RBF", "Matern"}, lenscale : {SCALE}, ncalls : {0}]

\* One build call on the randomFourier instance.
RandomFourier ==
    /\ Len(builds) < MaxBuilds
    /\ \E X \in TensorLists, draw \in 1..MaxDraw :
        LET r == build_randomRBF(cfg, kernel, X, draw)
        IN  /\ op' = "randomFourier" /\ inp' = X /\ out' = r.out
            /\ kernel' = r.kernel
            /\ builds' = Append(builds, [layer |-> "randomFourier",
                                         ok |-> r.out.ok, P |-> r.P])
            /\ UNCHANGED <<combVars, cfg, graph>>

NextRF == RandomFourier

SpecRF == InitRF /\ [][NextRF]_vars

\* ---------------------------------------------------------------- distribution spec
VecLens == {1, 2}

MuVals == {-SCALE, 0, SCALE}

\* Variances: the multiples of one half up to MaxVarN halves.
VarVals == {n * (SCALE \div 2) : n \in 1..MaxVarN}

Normals ==
    UNION {[mu : [1..d -> MuVals], var : [1..d -> VarVals]] : d \in VecLens}

\* Mixture components over two elements.
MixNormals == [mu : [1..2 -> {0, SCALE}], var : [1..2 -> {SCALE \div 2, SCALE}]]

MixPriors == [mu : {Zeros(2)}, var : {[i \in 1..2 |-> v] : v \in VarVals}]

EpsVals == [1..2 -> {-SCALE, SCALE}]

\* The arguments of the method call about to be made.
NormalArgs ==
    {[call |-> "normal_kl", q |-> q, p |-> p] :
       <<q, p>> \in {qp \in Normals \X Normals : Len(qp[1].mu) = Len(qp[2].mu)}}

MixKLArgs ==
    UNION {[call : {"mix_kl"}, comps : [1..K -> MixNormals], p : MixPriors] :
             K \in 2..MaxK}

MixSampleArgs ==
    UNION {[call : {"mix_sample"}, comps : [1..K -> MixNormals], e : EpsVals,
            logits : {MixLogits(K)}] : K \in 2..MaxK}

InitDist ==
    /\ op = ""
    /\ inp \in NormalArgs \cup MixKLArgs \cup MixSampleArgs
    /\ out = <<>>
    /\ layers = <<>>
    /\ calls = <<>>
    /\ cfg = NoCfg
    /\ graph = <<>>
    /\ builds = <<>>
    /\ kernel = NoKernel

\* q.KL(p) on two Normals of equal shape.
NormalKL ==
    /\ op = "" /\ inp.call = "normal_kl"
    /\ op' = "normal_kl"
    /\ out' = _Normal_KL(inp.q, inp.p)
    /\ UNCHANGED <<inp, combVars, layerVars>>

\* q.KL(p) on a mixture posterior of K components and a Normal prior.
MixKL ==
    /\ op = "" /\ inp.call = "mix_kl"
    /\ op' = "mix_kl"
    /\ out' = _MixPosterior_KL(inp.comps, inp.p)
    /\ UNCHANGED <<inp, combVars, layerVars>>

\* q.sample() on a mixture posterior of K components.
MixSample ==
    /\ op = "" /\ inp.call = "mix_sample"
    /\ \E k \in multinomial(inp.logits) :
        /\ op' = "mix_sample"
        /\ out' = _MixPosterior_sample(inp.comps, k, inp.e)
    /\ UNCHANGED <<inp, combVars, layerVars>>

NextDist == NormalKL \/ MixKL \/ MixSample

SpecDist == InitDist /\ [][NextDist]_vars

\* ---------------------------------------------------------------- claims
\* C2: a build of lmap on an input list whose length differs from the number
\* of layers raises the length-mismatch error before any sub-layer is
\* invoked; with equal lengths no length-mismatch error is raised.
LmapMismatchRaises ==
    op = "lmap" =>
        IF Len(inp) # Len(layers)
        THEN /\ ~out.ok
             /\ out.err = "ValueError: Number of layers and inputs not the same!"
             /\ out.Phi = <<>>
             /\ calls = <<>>
        ELSE out.ok /\ out.err = ""

WitnessLmapMismatch ==
    /\ op = "lmap" /\ Len(layers) = 2 /\ Len(inp) = 3
    /\ ~out.ok /\ calls = <<>>

\* C3 (as claimed): cat returns one tensor per sample, output s being the
\* concatenation of sample s of every branch, in branch order, and KL 0.
CatJoinsBranchesPerSample ==
    (op = "cat" /\ out.ok) =>
        LET B == Len(inp)
            S == Len(inp[1])
        IN  /\ Len(out.Phi) = S
            /\ \A s \in 1..S :
                 out.Phi[s].cols = Flatten([b \in 1..B |-> inp[b][s].cols])
            /\ out.KL = 0

\* C4: lmap invokes layer i exactly once, on input i; its outputs are the
\* sub-layers' outputs in order and its KL their sum; eye, activation, fork,
\* cat and add return KL 0; fork >> lmap >> join returns the sum of the
\* mapped layers' KLs.
LmapMapsAndSumsKL ==
    /\ (op = "lmap" /\ out.ok) =>
          /\ Len(calls) = Len(layers)
          /\ \A i \in 1..Len(layers) :
               /\ calls[i] = <<i, inp[i]>>
               /\ out.Phi[i] = SubLayer(i, layers[i], inp[i]).Phi
          /\ Len(out.Phi) = Len(layers)
          /\ out.KL = SumSeq(layers)
    /\ (op \in {"eye", "activation", "fork", "cat", "add"} /\ out.ok) =>
          out.KL = 0
    /\ (op = "pipe" /\ out.ok) =>
          /\ out.KL = SumSeq(layers)
          /\ Len(calls) = Len(layers)

WitnessLmapSum ==
    /\ op = "lmap" /\ out.ok /\ Len(layers) = 2
    /\ layers[1] = 1 /\ layers[2] = 2 /\ out.KL = 3
    /\ Len(calls) = 2

\* ---------------------------------------------------------------- dense claims
IsDist(node) == node.cls \in {"_NormPrior", "_NormPosterior"}

Dists == {i \in 1..Len(graph) : IsDist(graph[i])}

DenseBuilds == SelectSeq(builds, LAMBDA b : b.layer = "dense_var")

\* Distributions one build_dense call creates: pW, pb and K posteriors each
\* for W and b.
DistsPerBuild ==
    IF cfg.layer = "dense_var"
    THEN 2 + 2 * (IF cfg.mixtures > 1 THEN cfg.mixtures ELSE 1)
    ELSE 0

VarianceAlwaysViaPos ==
    \A i \in Dists :
        /\ graph[i].var.viaPos
        /\ \A v \in ParamVals : VarValue(graph[i].var, v) > 0

\* C5 (amended): every posterior variance, and every prior variance when
\* learn_prior is set, went through pos and is strictly positive; with
\* learn_prior unset the prior variance is reg itself.
VarianceViaPosUnlessFixedPrior ==
    \A i \in Dists :
        /\ graph[i].cls = "_NormPosterior" => graph[i].var.viaPos
        /\ graph[i].cls = "_NormPrior" =>
             /\ graph[i].var.viaPos <=> cfg.learn_prior
             /\ ~graph[i].var.viaPos =>
                  \A v \in ParamVals : VarValue(graph[i].var, v) = cfg.reg
        /\ graph[i].var.viaPos =>
             \A v \in ParamVals : VarValue(graph[i].var, v) > 0

WitnessFixedPriorMixture ==
    /\ op = "dense_var" /\ out.ok
    /\ ~cfg.learn_prior /\ cfg.mixtures = 2 /\ cfg.reg = 0
    /\ \E i \in Dists : graph[i].cls = "_NormPrior" /\ ~graph[i].var.viaPos
    /\ \E i \in Dists : graph[i].cls = "_NormPosterior" /\ graph[i].var.viaPos

MixedDims(X) == \E i \in 1..Len(X) : Len(X[i].cols) # Len(X[1].cols)

NormalKLNonNegative ==
    op = "normal_kl" =>
        \A i \in 1..Len(out) :
            /\ out[i] >= 0
            /\ (inp.q.mu[i] = inp.p.mu[i] /\ inp.q.var[i] = inp.p.var[i])
                 => out[i] = 0

WitnessNormalKL ==
    /\ op = "normal_kl" /\ Len(out) = 2
    /\ out[1] = 0 /\ out[2] > 0
    /\ inp.q.var[2] < inp.p.var[2]

\* C9 (as claimed): the mixture KL is the average over the components of
\* trace/2 - log_norm(q_k.mu | p) + logsumexp_j(overlap_kj - log(K)).
MixKLOffsetIsLogK ==
    op = "mix_kl" =>
        out = MixKLWithOffset(inp.comps, inp.p, Ln(Len(inp.comps) * SCALE))

\* C10: sample() draws k in 0..K-1 from equal logits and returns component
\* k's sample: K terms, one taken (component k), the others zero tensors.
MixSampleTakesOneComponent ==
    op = "mix_sample" =>
        LET K == Len(inp.comps)
        IN  /\ out.k \in 0..K - 1
            /\ \A i \in 1..K : inp.logits[i] = inp.logits[1]
            /\ Len(out.terms) = K
            /\ \A i \in 1..K :
                 /\ out.terms[i].taken <=> (i = out.k + 1)
                 /\ ~out.terms[i].taken =>
                      out.terms[i].val = Zeros(Len(inp.comps[1].mu))
            /\ out.sample = _Normal_sample(inp.comps[out.k + 1], inp.e)

WitnessMixSampleSecond ==
    /\ op = "mix_sample" /\ Len(inp.comps) = 2 /\ out.k = 1
    /\ inp.comps[1] # inp.comps[2]
    /\ out.sample = _Normal_sample(inp.comps[2], inp.e)
    /\ out.sample # _Normal_sample(inp.comps[1], inp.e)

====
